---- MODULE Spec2Model ----
(***************************************************************************)
(* Model of the image generation endpoint /api/generate-image (the route  *)
(* handlers POST, GET, PUT, DELETE) and of the Zod request schema it      *)
(* validates the body with.                                               *)
(*                                                                         *)
(* A JavaScript string is a sequence of runs [c |-> character, n |-> how   *)
(* many times it is repeated], adjacent runs holding different characters. *)
(* The encoding is one-to-one with strings, so equality of two encoded     *)
(* strings is equality of the strings, and it lets a prompt of 1001        *)
(* characters be an input.                                                 *)
(***************************************************************************)
EXTENDS Integers, Sequences, FiniteSets, TLC

\* ------------------------------------------------------------------------
\* Bounds of the model and program constants
\* ------------------------------------------------------------------------

\* most runs of equal characters in a prompt drawn as input
MaxRuns == 2

\* .max(1000, ...) of the prompt
MaxPromptLength == 1000

\* prompt.length > 25 ? prompt.substring(0, 25) + '...' : prompt
PreviewLength == 25

\* dimensions: { width: 512, height: 512 }
ImageSize == 512

\* ------------------------------------------------------------------------
\* Strings
\* ------------------------------------------------------------------------

Chars == {"a", "b", " ", "\t"}

\* the characters String.prototype.trim() strips that occur in Chars
IsWhitespace(c) == c \in {" ", "\t"}

\* run lengths of the inputs: one character, and one less and one more than
\* the length limit (the limit itself is the sum of two runs)
RunLengths == {1, MaxPromptLength - 1, MaxPromptLength + 1}

Runs == [c : Chars, n : RunLengths]

IsCanonical(s) == \A i \in 1..(Len(s) - 1) : s[i].c # s[i + 1].c

\* every string of at most MaxRuns runs
Strings == { s \in UNION { [1..k -> Runs] : k \in 0..MaxRuns } : IsCanonical(s) }

RECURSIVE StrLen(_)
\* s.length
StrLen(s) == IF s = <<>> THEN 0 ELSE Head(s).n + StrLen(Tail(s))

RECURSIVE TrimStart(_)
TrimStart(s) ==
    IF s = <<>> THEN s
    ELSE IF IsWhitespace(Head(s).c) THEN TrimStart(Tail(s))
    ELSE s

RECURSIVE TrimEnd(_)
TrimEnd(s) ==
    IF s = <<>> THEN s
    ELSE IF IsWhitespace(s[Len(s)].c) THEN TrimEnd(SubSeq(s, 1, Len(s) - 1))
    ELSE s

\* s.trim()
Trim(s) == TrimEnd(TrimStart(s))

\* a + b
Concat(a, b) ==
    IF a = <<>> THEN b
    ELSE IF b = <<>> THEN a
    ELSE IF a[Len(a)].c = Head(b).c
         THEN SubSeq(a, 1, Len(a) - 1)
                \o <<[c |-> Head(b).c, n |-> a[Len(a)].n + Head(b).n]>>
                \o Tail(b)
         ELSE a \o b

RECURSIVE Substring0(_, _)
\* s.substring(0, k)
Substring0(s, k) ==
    IF s = <<>> \/ k <= 0 THEN <<>>
    ELSE IF Head(s).n >= k THEN <<[c |-> Head(s).c, n |-> k]>>
    ELSE <<Head(s)>> \o Substring0(Tail(s), k - Head(s).n)

Ellipsis == <<[c |-> ".", n |-> 3]>>

\* ------------------------------------------------------------------------
\* JSON values of a request body
\* ------------------------------------------------------------------------

\* a property of the body object: missing, a string, or a value of another
\* type (a number); s is the string, <<>> when there is none
Undefined == [t |-> "undefined", s |-> <<>>]
NotAString == [t |-> "number", s |-> <<>>]
Str(s) == [t |-> "string", s |-> s]

\* the same for the model property, whose strings are model names
UndefinedModel == [t |-> "undefined", s |-> ""]
NotAStringModel == [t |-> "number", s |-> ""]

SupportedModel == "gemini-2.5-flash-image-preview"
OtherModel == "gemini-1.5-pro"

PromptValues == {Undefined, NotAString} \cup { Str(s) : s \in Strings }
ModelValues == {UndefinedModel, NotAStringModel, Str(SupportedModel), Str(OtherModel)}

\* what request.json() is given: text that is no JSON (parsed FALSE), or a
\* JSON value of some type; prompt and model are read for an object only
BodyTypes == {"null", "false", "zero", "emptyString", "number", "string", "array", "object"}

Body(parsed, type, prompt, model) ==
    [parsed |-> parsed, type |-> type, prompt |-> prompt, model |-> model]

MalformedBody == Body(FALSE, "null", Undefined, UndefinedModel)

Bodies ==
    {MalformedBody}
    \cup { Body(TRUE, ty, Undefined, UndefinedModel) : ty \in BodyTypes \ {"object"} }
    \cup { Body(TRUE, "object", p, m) : p \in PromptValues, m \in ModelValues }

\* !body
IsFalsy(body) == body.type \in {"null", "false", "zero", "emptyString"}

\* request.json().catch(() => null)
ParseBody(body) ==
    IF body.parsed THEN body ELSE Body(TRUE, "null", Undefined, UndefinedModel)

\* ------------------------------------------------------------------------
\* ImageGenerationRequestSchema
\* ------------------------------------------------------------------------

\* PromptIssues with the limit compared by >= instead of >
PromptIssues_LimitExclusive(p) ==
    IF p.t # "string" THEN <<"invalid_type">>
    ELSE (IF StrLen(p.s) < 1 THEN <<"Prompt cannot be empty">> ELSE <<>>)
         \o (IF StrLen(p.s) >= MaxPromptLength
             THEN <<"Prompt must be 1000 characters or less">> ELSE <<>>)

\* PromptIssues with .trim() moved before .min() and .max()
PromptIssues_TrimFirst(p) ==
    IF p.t # "string" THEN <<"invalid_type">>
    ELSE (IF StrLen(Trim(p.s)) < 1 THEN <<"Prompt cannot be empty">> ELSE <<>>)
         \o (IF StrLen(Trim(p.s)) > MaxPromptLength
             THEN <<"Prompt must be 1000 characters or less">> ELSE <<>>)

\* prompt: z.string().min(1, ...).max(1000, ...).trim(): the checks run in
\* the order written, so both lengths are those of the untrimmed string
PromptIssues(p) ==
    IF p.t # "string" THEN <<"invalid_type">>
    ELSE (IF StrLen(p.s) < 1 THEN <<"Prompt cannot be empty">> ELSE <<>>)
         \o (IF StrLen(p.s) > MaxPromptLength
             THEN <<"Prompt must be 1000 characters or less">> ELSE <<>>)

\* PromptData with .trim() left out of the schema
PromptData_NoTrim(p) == p.s

PromptData(p) == Trim(p.s)

\* model: z.string().optional().default(...).refine(...)
ModelData(m) == IF m.t = "undefined" THEN SupportedModel ELSE m.s

ModelIssues(m) ==
    IF m.t \notin {"undefined", "string"} THEN <<"invalid_type">>
    ELSE IF ModelData(m) \notin {SupportedModel} THEN <<"Invalid model specified">>
    ELSE <<>>

SchemaIssues(body) ==
    IF body.type # "object" THEN <<"invalid_type">>
    ELSE PromptIssues(body.prompt) \o ModelIssues(body.model)

\* ImageGenerationRequestSchema.safeParse(body)
SafeParse(body) ==
    LET issues == SchemaIssues(body)
    IN  IF issues = <<>>
        THEN [success |-> TRUE, issues |-> <<>>,
              data |-> [prompt |-> PromptData(body.prompt),
                        model |-> ModelData(body.model)]]
        ELSE [success |-> FALSE, issues |-> issues,
              data |-> [prompt |-> <<>>, model |-> ""]]

\* ------------------------------------------------------------------------
\* Environment of a request: the credential, the SDK, the values thrown
\* ------------------------------------------------------------------------

\* process.env.GOOGLE_AI_API_KEY: unset, set to '', or set to a key
ApiKeys == {[set |-> FALSE, value |-> ""],
            [set |-> TRUE, value |-> ""],
            [set |-> TRUE, value |-> "test-api-key"]}

\* !googleApiKey
KeyMissing(key) == ~key.set \/ key.value = ""

\* A message is the sequence of its words; a pattern of several words
\* ('API key', 'rate limit') matches the words next to each other.
Messages == {
    <<"Google", "AI", "API", "Error">>,
    <<"Invalid", "API", "key">>,
    <<"API", "key", "quota", "exceeded">>,
    <<"quota", "exceeded">>,
    <<"rate", "limit", "reached", "for", "model">>,
    <<"rate", "of", "limit">>,
    <<"model", "not", "found">>,
    <<"image", "generation", "failed">>,
    <<"could", "not", "generate">>,
    <<"socket", "hang", "up">> }

\* what a throw statement is given: an Error with a message, a string, or
\* an object that is no Error
Thrown(kind, message) == [kind |-> kind, message |-> message]
ThrownValues ==
    { Thrown("Error", m) : m \in Messages }
    \cup { Thrown("string", <<"quota", "exceeded">>), Thrown("object", <<>>) }

\* String(error) of a value that is no Error
StringOf(e) == IF e.kind = "string" THEN e.message ELSE <<"[object", "Object]">>

\* the mocked or real @ai-sdk/google: google(model) returns a model object
\* or throws; the model object's generateImage would resolve or reject
Sdk(factory, thrown, generateImage) ==
    [factory |-> factory, thrown |-> thrown, generateImage |-> generateImage]

NoThrown == Thrown("none", <<>>)

Sdks ==
    { Sdk("returns", NoThrown, g) : g \in {"resolves", "rejects"} }
    \cup { Sdk("throws", e, "resolves") : e \in ThrownValues }

\* errorMessage.includes(pattern)
Includes(message, pattern) ==
    \E i \in 1..(Len(message) - Len(pattern) + 1) :
        SubSeq(message, i, i + Len(pattern) - 1) = pattern

\* ------------------------------------------------------------------------
\* The route handlers
\* ------------------------------------------------------------------------

\* NextResponse.json(body, { status })
Json(body, status) == [kind |-> "response", status |-> status, body |-> body]

\* the failure envelopes without and with details
Failure(error, message, requestId, generatedAt) ==
    [success |-> FALSE, error |-> error, message |-> message,
     requestId |-> requestId, generatedAt |-> generatedAt]

FailureWithDetails(error, message, requestId, generatedAt, details) ==
    [success |-> FALSE, error |-> error, message |-> message,
     requestId |-> requestId, generatedAt |-> generatedAt, details |-> details]

\* the text shown in the placeholder image
PreviewText(prompt) ==
    IF StrLen(prompt) > PreviewLength
    THEN Concat(Substring0(prompt, PreviewLength), Ellipsis)
    ELSE prompt

\* the data URL of the placeholder SVG, by the text it shows
PlaceholderImageUrl(prompt) ==
    [scheme |-> "data:image/svg+xml;base64", text |-> PreviewText(prompt)]

\* if (!googleApiKey) return ...
MissingKeyResponse(requestId, generatedAt) ==
    Json(Failure("API_KEY_MISSING", <<"Google AI API key is not configured">>,
                 requestId, generatedAt), 401)

\* if (!body) return ...
InvalidJsonResponse(requestId, generatedAt) ==
    Json(Failure("INVALID_PROMPT", <<"Invalid JSON in request body">>,
                 requestId, generatedAt), 400)

\* if (!validation.success) return ...; the message joins the issues' messages
ValidationFailedResponse(issues, requestId, generatedAt) ==
    Json(FailureWithDetails("INVALID_PROMPT", issues, requestId, generatedAt,
                            [validationErrors |-> issues]), 400)

\* SuccessResponse without the model property
SuccessResponse_NoModel(data, requestId, generatedAt) ==
    Json([success |-> TRUE,
          imageUrl |-> PlaceholderImageUrl(data.prompt),
          requestId |-> requestId,
          generatedAt |-> generatedAt,
          dimensions |-> [width |-> ImageSize, height |-> ImageSize],
          prompt |-> data.prompt], 200)

\* const response = { success: true, ... }; return NextResponse.json(response)
SuccessResponse(data, requestId, generatedAt) ==
    Json([success |-> TRUE,
          imageUrl |-> PlaceholderImageUrl(data.prompt),
          requestId |-> requestId,
          generatedAt |-> generatedAt,
          dimensions |-> [width |-> ImageSize, height |-> ImageSize],
          prompt |-> data.prompt,
          model |-> data.model], 200)

\* google(model), whose result is not used, then the placeholder response
Generate(data, sdk, requestId, generatedAt) ==
    IF sdk.factory = "throws"
    THEN [kind |-> "throw", thrown |-> sdk.thrown]
    ELSE SuccessResponse(data, requestId, generatedAt)

\* TryBlock with the body parsed and validated before the credential check
TryBlock_BodyFirst(key, body, sdk, requestId, generatedAt) ==
    LET parsed == ParseBody(body)
        validation == SafeParse(parsed)
    IN  IF IsFalsy(parsed)
        THEN InvalidJsonResponse(requestId, generatedAt)
        ELSE IF ~validation.success
        THEN ValidationFailedResponse(validation.issues, requestId, generatedAt)
        ELSE IF KeyMissing(key)
        THEN MissingKeyResponse(requestId, generatedAt)
        ELSE Generate(validation.data, sdk, requestId, generatedAt)

\* the try block of POST: the response it returns, or the value it throws
TryBlock(key, body, sdk, requestId, generatedAt) ==
    IF KeyMissing(key)
    THEN MissingKeyResponse(requestId, generatedAt)
    ELSE LET parsed == ParseBody(body)
             validation == SafeParse(parsed)
         IN  IF IsFalsy(parsed)
             THEN InvalidJsonResponse(requestId, generatedAt)
             ELSE IF ~validation.success
             THEN ValidationFailedResponse(validation.issues, requestId, generatedAt)
             ELSE Generate(validation.data, sdk, requestId, generatedAt)

\* error instanceof Error ? error.message : String(error)
ErrorMessage(error) == IF error.kind = "Error" THEN error.message ELSE StringOf(error)

\* Classify with the status of the rate limit branch left at the default 500
Classify_RateLimit500(errorMessage) ==
    IF Includes(errorMessage, <<"API", "key">>)
    THEN [error |-> "API_KEY_INVALID", status |-> 401,
          message |-> <<"Invalid Google AI API key">>]
    ELSE IF Includes(errorMessage, <<"quota">>) \/ Includes(errorMessage, <<"rate", "limit">>)
    THEN [error |-> "RATE_LIMIT_EXCEEDED", status |-> 500,
          message |-> <<"Rate limit exceeded. Please try again later">>]
    ELSE IF Includes(errorMessage, <<"model">>)
    THEN [error |-> "MODEL_UNAVAILABLE", status |-> 503,
          message |-> <<"The requested AI model is currently unavailable">>]
    ELSE IF Includes(errorMessage, <<"generation">>) \/ Includes(errorMessage, <<"generate">>)
    THEN [error |-> "GENERATION_FAILED", status |-> 500,
          message |-> <<"Failed to generate image. Please try a different prompt">>]
    ELSE [error |-> "INTERNAL_ERROR", status |-> 500,
          message |-> <<"An unexpected error occurred during image generation">>]

\* the if / else-if chain of the catch block: error code, status, message
Classify(errorMessage) ==
    IF Includes(errorMessage, <<"API", "key">>)
    THEN [error |-> "API_KEY_INVALID", status |-> 401,
          message |-> <<"Invalid Google AI API key">>]
    ELSE IF Includes(errorMessage, <<"quota">>) \/ Includes(errorMessage, <<"rate", "limit">>)
    THEN [error |-> "RATE_LIMIT_EXCEEDED", status |-> 429,
          message |-> <<"Rate limit exceeded. Please try again later">>]
    ELSE IF Includes(errorMessage, <<"model">>)
    THEN [error |-> "MODEL_UNAVAILABLE", status |-> 503,
          message |-> <<"The requested AI model is currently unavailable">>]
    ELSE IF Includes(errorMessage, <<"generation">>) \/ Includes(errorMessage, <<"generate">>)
    THEN [error |-> "GENERATION_FAILED", status |-> 500,
          message |-> <<"Failed to generate image. Please try a different prompt">>]
    ELSE [error |-> "INTERNAL_ERROR", status |-> 500,
          message |-> <<"An unexpected error occurred during image generation">>]

\* the catch block of POST
CatchBlock(error, requestId, generatedAt) ==
    LET errorMessage == ErrorMessage(error)
        c == Classify(errorMessage)
    IN  Json(FailureWithDetails(c.error, c.message, requestId, generatedAt,
                                [originalError |-> errorMessage]), c.status)

\* POST without its catch block: what the try block throws leaves the handler
POST_NoCatch(key, body, sdk, requestId, generatedAt) ==
    TryBlock(key, body, sdk, requestId, generatedAt)

\* export async function POST(request)
POST(key, body, sdk, requestId, generatedAt) ==
    LET r == TryBlock(key, body, sdk, requestId, generatedAt)
    IN  IF r.kind = "throw"
        THEN CatchBlock(r.thrown, requestId, generatedAt)
        ELSE r

\* export async function GET / PUT / DELETE
MethodNotAllowed(requestId, generatedAt) ==
    Json(Failure("INTERNAL_ERROR",
                 <<"Method not allowed. Use POST to generate images">>,
                 requestId, generatedAt), 405)

GET(requestId, generatedAt) == MethodNotAllowed(requestId, generatedAt)
PUT(requestId, generatedAt) == MethodNotAllowed(requestId, generatedAt)
DELETE(requestId, generatedAt) == MethodNotAllowed(requestId, generatedAt)

\* the methods the route module exports a handler for
ExportedMethods == {"POST", "GET", "PUT", "DELETE"}

Methods == ExportedMethods \cup {"PATCH"}

\* the response to a method without an exported handler is the framework's:
\* status 405 and no body, nothing of it written by the route module
NoBody == [nobody |-> TRUE]
FrameworkMethodNotAllowed == [kind |-> "response", status |-> 405, body |-> NoBody]

\* crypto.randomUUID() and new Date() of one request
Stamps == {[id |-> "uuid-1", at |-> 1], [id |-> "uuid-2", at |-> 2]}

\* ------------------------------------------------------------------------
\* The endpoint as a state machine: one request at a time is received,
\* handled by the handler of its method, and its response delivered
\* ------------------------------------------------------------------------

VARIABLES
    apiKey,     \* process.env.GOOGLE_AI_API_KEY
    pc,         \* "idle", "pending" (request received), "responded"
    request,    \* [method, body] of the request being served
    sdk,        \* how the SDK behaved while the request was handled
    response    \* what the handler returned

vars == <<apiKey, pc, request, sdk, response>>

\* The state of the client (the ImageGenerator component or the
\* useImageGeneration hook), which the endpoint neither reads nor writes
VARIABLES
    state,      \* the ImageGeneratorUIState held by useState
    fetches,    \* the calls of fetch('/api/generate-image') not yet settled
    timers,     \* the retry timers set by setTimeout and not yet fired
    uuids,      \* how many times the client called crypto.randomUUID()
    log,        \* how many times fetch was called, by the id of the request
                \* (the component) or by the call of generateImage (the hook)
    settled,    \* what a call of fetch resolved to or rejected with, if the
                \* client's last step was the end of that call
    options     \* the options useImageGeneration was called with

clientVars == <<state, fetches, timers, uuids, log, settled, options>>

\* ImageGeneratorUIState before the first render
initialState ==
    [isLoading |-> FALSE,
     error |-> [null |-> TRUE, message |-> <<>>],
     currentRequest |-> [null |-> TRUE],
     generatedImage |-> [null |-> TRUE],
     inputValue |-> <<>>]

\* the client's last step was not the end of a call of fetch
NotSettled == [how |-> "none"]

\* maxRetries = 3
DefaultMaxRetries == 3

\* useImageGeneration(): validateInput = true, maxRetries = 3, no callbacks
DefaultOptions == [validateInput |-> TRUE, maxRetries |-> DefaultMaxRetries]

\* no page is open
NoClient ==
    /\ state = initialState
    /\ fetches = {}
    /\ timers = {}
    /\ uuids = 0
    /\ log = <<>>      \* the function of empty domain
    /\ settled = NotSettled
    /\ options = DefaultOptions

NoRequest == [method |-> "none", body |-> MalformedBody]
NoSdk == Sdk("unused", NoThrown, "resolves")
NoResponse == [kind |-> "none", status |-> 0, body |-> NoBody]

Init ==
    /\ apiKey \in ApiKeys
    /\ pc = "idle"
    /\ request = NoRequest
    /\ sdk = NoSdk
    /\ response = NoResponse
    /\ NoClient

\* the deployment sets, clears or changes the credential between requests
SetApiKey ==
    /\ pc = "idle"
    /\ \E k \in ApiKeys \ {apiKey} : apiKey' = k
    /\ UNCHANGED <<pc, request, sdk, response>>
    /\ UNCHANGED clientVars

\* a POST arrives with some body
ReceivePost ==
    /\ pc = "idle"
    /\ \E b \in Bodies : request' = [method |-> "POST", body |-> b]
    /\ pc' = "pending"
    /\ UNCHANGED <<apiKey, sdk, response>>
    /\ UNCHANGED clientVars

\* a request of another method arrives
ReceiveOther ==
    /\ pc = "idle"
    /\ \E m \in Methods \ {"POST"} : request' = [method |-> m, body |-> MalformedBody]
    /\ pc' = "pending"
    /\ UNCHANGED <<apiKey, sdk, response>>
    /\ UNCHANGED clientVars

HandlePOST ==
    /\ pc = "pending"
    /\ request.method = "POST"
    /\ \E s \in Sdks, stamp \in Stamps :
        /\ sdk' = s
        /\ response' = POST(apiKey, request.body, s, stamp.id, stamp.at)
    /\ pc' = "responded"
    /\ UNCHANGED <<apiKey, request>>
    /\ UNCHANGED clientVars

HandleGET ==
    /\ pc = "pending"
    /\ request.method = "GET"
    /\ \E stamp \in Stamps : response' = GET(stamp.id, stamp.at)
    /\ pc' = "responded"
    /\ UNCHANGED <<apiKey, request, sdk>>
    /\ UNCHANGED clientVars

HandlePUT ==
    /\ pc = "pending"
    /\ request.method = "PUT"
    /\ \E stamp \in Stamps : response' = PUT(stamp.id, stamp.at)
    /\ pc' = "responded"
    /\ UNCHANGED <<apiKey, request, sdk>>
    /\ UNCHANGED clientVars

HandleDELETE ==
    /\ pc = "pending"
    /\ request.method = "DELETE"
    /\ \E stamp \in Stamps : response' = DELETE(stamp.id, stamp.at)
    /\ pc' = "responded"
    /\ UNCHANGED <<apiKey, request, sdk>>
    /\ UNCHANGED clientVars

\* no handler is exported for the method
HandleUnexported ==
    /\ pc = "pending"
    /\ request.method \notin ExportedMethods
    /\ response' = FrameworkMethodNotAllowed
    /\ pc' = "responded"
    /\ UNCHANGED <<apiKey, request, sdk>>
    /\ UNCHANGED clientVars

\* the response is sent; the handler keeps nothing of the request
Deliver ==
    /\ pc = "responded"
    /\ pc' = "idle"
    /\ request' = NoRequest
    /\ sdk' = NoSdk
    /\ response' = NoResponse
    /\ UNCHANGED apiKey
    /\ UNCHANGED clientVars

Next ==
    \/ SetApiKey
    \/ ReceivePost
    \/ ReceiveOther
    \/ HandlePOST
    \/ HandleGET
    \/ HandlePUT
    \/ HandleDELETE
    \/ HandleUnexported
    \/ Deliver

Spec == Init /\ [][Next]_<<vars, clientVars>>

\* ------------------------------------------------------------------------
\* Properties of the endpoint
\* ------------------------------------------------------------------------

\* a POST has been handled and its response not yet delivered
PostResponded == pc = "responded" /\ request.method = "POST"

\* the body of the request is a JSON object whose prompt is a string
HasStringPrompt == request.body.parsed /\ request.body.type = "object"
                   /\ request.body.prompt.t = "string"

RequestPrompt == request.body.prompt.s

\* the model is omitted or is the supported model
ModelAccepted == request.body.model \in {UndefinedModel, Str(SupportedModel)}

AllWhitespace(s) == \A i \in 1..Len(s) : IsWhitespace(s[i].c)
NoWhitespace(s) == \A i \in 1..Len(s) : ~IsWhitespace(s[i].c)

ErrorCodes == {"INVALID_PROMPT", "API_KEY_MISSING", "API_KEY_INVALID",
               "RATE_LIMIT_EXCEEDED", "MODEL_UNAVAILABLE", "GENERATION_FAILED",
               "INTERNAL_ERROR"}

IsFailure(r, status, error) ==
    /\ r.kind = "response"
    /\ r.status = status
    /\ r.body.success = FALSE
    /\ r.body.error = error

\* C1: with the credential configured, the model omitted or the supported one
\* and google(model) returning, a POST whose prompt has 1 to 1000 characters,
\* none of them whitespace, is answered 200 with success true and an imageUrl.
C1_ValidPromptSucceeds ==
    (/\ PostResponded
     /\ ~KeyMissing(apiKey)
     /\ HasStringPrompt
     /\ StrLen(RequestPrompt) >= 1
     /\ StrLen(RequestPrompt) <= MaxPromptLength
     /\ NoWhitespace(RequestPrompt)
     /\ ModelAccepted
     /\ sdk.factory = "returns")
    => /\ response.kind = "response"
       /\ response.status = 200
       /\ response.body.success = TRUE
       /\ "imageUrl" \in DOMAIN response.body

\* a prompt of exactly 1000 non-whitespace characters was answered 200
C1_Witness ==
    /\ PostResponded
    /\ ~KeyMissing(apiKey)
    /\ HasStringPrompt
    /\ StrLen(RequestPrompt) = MaxPromptLength
    /\ NoWhitespace(RequestPrompt)
    /\ request.body.model = UndefinedModel
    /\ response.status = 200

\* C2 (as claimed): with the credential configured, a POST whose prompt is
\* empty or made only of whitespace is answered 400 INVALID_PROMPT, never 200.
C2_BlankPromptRejected ==
    (/\ PostResponded
     /\ ~KeyMissing(apiKey)
     /\ HasStringPrompt
     /\ AllWhitespace(RequestPrompt)
     /\ sdk.factory = "returns")
    => /\ IsFailure(response, 400, "INVALID_PROMPT")
       /\ response.status # 200

\* C3: with the credential absent every POST is answered 401 API_KEY_MISSING,
\* whatever its body.
C3_MissingKeyFirst ==
    (PostResponded /\ ~apiKey.set)
    => IsFailure(response, 401, "API_KEY_MISSING")

\* without the credential, a body that is no JSON was answered API_KEY_MISSING
C3_Witness ==
    /\ PostResponded
    /\ ~apiKey.set
    /\ ~request.body.parsed
    /\ IsFailure(response, 401, "API_KEY_MISSING")

\* C4: every response of POST is an envelope with success, requestId and
\* generatedAt; its status is 200 exactly when success is true; a success
\* carries imageUrl, dimensions, prompt and model, a failure a message and
\* one of the seven error codes.
C4_Envelope ==
    PostResponded
    => /\ response.kind = "response"
       /\ {"success", "requestId", "generatedAt"} \subseteq DOMAIN response.body
       /\ response.body.success \in BOOLEAN
       /\ (response.status = 200) <=> (response.body.success = TRUE)
       /\ response.body.success = TRUE
            => {"imageUrl", "dimensions", "prompt", "model"} \subseteq DOMAIN response.body
       /\ response.body.success = FALSE
            => /\ {"error", "message"} \subseteq DOMAIN response.body
               /\ response.body.error \in ErrorCodes

\* a success envelope was returned
C4_Witness ==
    /\ PostResponded
    /\ response.status = 200
    /\ response.body.success = TRUE
    /\ "model" \in DOMAIN response.body

\* C5: whatever the body, and whatever is thrown while the request is
\* processed, POST returns a JSON envelope with an HTTP status; nothing
\* thrown leaves the handler.
C5_NothingPropagates ==
    PostResponded
    => /\ response.kind = "response"
       /\ response.status \in {200, 400, 401, 429, 500, 503}
       /\ "success" \in DOMAIN response.body

\* google(model) threw a value that is no Error and a response was returned
C5_Witness ==
    /\ PostResponded
    /\ sdk.factory = "throws"
    /\ sdk.thrown.kind = "object"
    /\ ~KeyMissing(apiKey)
    /\ SafeParse(ParseBody(request.body)).success
    /\ response.kind = "response"
    /\ response.status = 500

\* the status the claim gives for each error code
StatusOfCode(error) ==
    CASE error = "INVALID_PROMPT" -> 400
      [] error \in {"API_KEY_MISSING", "API_KEY_INVALID"} -> 401
      [] error = "RATE_LIMIT_EXCEEDED" -> 429
      [] error = "MODEL_UNAVAILABLE" -> 503
      [] error \in {"GENERATION_FAILED", "INTERNAL_ERROR"} -> 500
      [] OTHER -> 0

\* C6: in every failure response of POST the status is the one of its error
\* code: 400, 401, 401, 429, 503, 500, 500.
C6_StatusOfCode ==
    (PostResponded /\ response.kind = "response" /\ response.body.success = FALSE)
    => response.status = StatusOfCode(response.body.error)

\* a thrown error was classified as a rate limit and answered 429
C6_Witness ==
    /\ PostResponded
    /\ sdk.factory = "throws"
    /\ IsFailure(response, 429, "RATE_LIMIT_EXCEEDED")

\* the SDK failed: google(model) threw, or the model's generateImage rejects
SdkFails == sdk.factory = "throws" \/ sdk.generateImage = "rejects"

\* C7 (as claimed): when the call to the SDK fails while a POST with a valid
\* prompt is processed, the answer is 500 GENERATION_FAILED.
C7_SdkFailureIsGenerationFailed ==
    (/\ PostResponded
     /\ ~KeyMissing(apiKey)
     /\ SafeParse(ParseBody(request.body)).success
     /\ SdkFails)
    => IsFailure(response, 500, "GENERATION_FAILED")

\* C8 (as claimed): every method other than POST is answered 405 with the
\* failure envelope: success false, error, message, requestId, generatedAt.
C8_OtherMethodsGetEnvelope ==
    (pc = "responded" /\ request.method # "POST")
    => /\ response.status = 405
       /\ {"success", "error", "message", "requestId", "generatedAt"}
            \subseteq DOMAIN response.body
       /\ response.body.success = FALSE

\* C9 (as claimed): the prompt of a success response is the prompt of the
\* request body, unchanged; stated for the prompts that are not blank.
C9_PromptEchoedUnchanged ==
    (PostResponded /\ response.status = 200 /\ ~AllWhitespace(RequestPrompt))
    => response.body.prompt = RequestPrompt

\* t is s without its leading and trailing whitespace
IsTrimOf(t, s) ==
    \E i \in 1..(Len(s) + 1), j \in 0..Len(s) :
        /\ t = SubSeq(s, i, j)
        /\ \A k \in 1..(i - 1) : IsWhitespace(s[k].c)
        /\ \A k \in (j + 1)..Len(s) : IsWhitespace(s[k].c)
        /\ t # <<>> => ~IsWhitespace(t[1].c) /\ ~IsWhitespace(t[Len(t)].c)

\* C9 (amended): the prompt of a success response is the prompt of the
\* request body without its leading and trailing whitespace; it is the
\* request's prompt unchanged when that neither starts nor ends with whitespace.
C9_PromptEchoedTrimmed ==
    (PostResponded /\ response.status = 200)
    => /\ IsTrimOf(response.body.prompt, RequestPrompt)
       /\ (/\ ~IsWhitespace(RequestPrompt[1].c)
           /\ ~IsWhitespace(RequestPrompt[Len(RequestPrompt)].c))
            => response.body.prompt = RequestPrompt

\* a prompt with whitespace before its text was echoed without it
C9_Witness ==
    /\ PostResponded
    /\ response.status = 200
    /\ Len(RequestPrompt) = 2
    /\ IsWhitespace(RequestPrompt[1].c)
    /\ response.body.prompt = Tail(RequestPrompt)

\* C10: with the credential configured, a POST whose prompt has more than
\* 1000 characters, counted before trimming, is answered 400 INVALID_PROMPT.
C10_LongPromptRejected ==
    (/\ PostResponded
     /\ ~KeyMissing(apiKey)
     /\ HasStringPrompt
     /\ StrLen(RequestPrompt) > MaxPromptLength)
    => IsFailure(response, 400, "INVALID_PROMPT")

\* a prompt longer than the limit only by its whitespace was rejected
C10_Witness ==
    /\ PostResponded
    /\ ~KeyMissing(apiKey)
    /\ HasStringPrompt
    /\ StrLen(RequestPrompt) > MaxPromptLength
    /\ StrLen(Trim(RequestPrompt)) >= 1
    /\ StrLen(Trim(RequestPrompt)) <= MaxPromptLength
    /\ ModelAccepted
    /\ IsFailure(response, 400, "INVALID_PROMPT")

\* ------------------------------------------------------------------------
\* The client: what the form schema, the browser and fetch give it
\* ------------------------------------------------------------------------

\* how many times one page calls crypto.randomUUID()
MaxUuids == 4

\* the k-th value of crypto.randomUUID() in the browser; never a value of
\* the server's crypto.randomUUID()
ClientUuid(k) == "client-uuid-" \o ToString(k)

Run(c, n) == [c |-> c, n |-> n]

\* what is typed or pasted into the input, or set by a change event: with
\* and without surrounding whitespace, of 1000 and of 1001 characters
InputValues == {
    <<>>,
    <<Run(" ", 1)>>,
    <<Run("a", 1)>>,
    <<Run("b", 1)>>,
    <<Run(" ", 1), Run("a", 1)>>,
    <<Run("a", MaxPromptLength - 1), Run("b", 1)>>,
    <<Run(" ", 1), Run("a", MaxPromptLength - 1), Run("b", 1)>>,
    <<Run("a", MaxPromptLength + 1)>> }

\* a value that is null or a message; '' is the message of no words
NullError == [null |-> TRUE, message |-> <<>>]
ErrorOf(message) == [null |-> FALSE, message |-> message]

\* the truthiness of a value that is null or a string
Truthy(error) == ~error.null /\ error.message # <<>>

\* a || b on strings
OrElse(a, b) == IF a = <<>> THEN b ELSE a

\* ClientIssues without the check .max(1000, ...)
ClientIssues_NoMax(value) ==
    (IF StrLen(value) < 1
     THEN <<<<"Please describe the image you want to generate">>>> ELSE <<>>)
    \o (IF StrLen(Trim(value)) > 0
        THEN <<>> ELSE <<<<"Prompt cannot be only whitespace">>>>)
    \o (IF AllWhitespace(value)
        THEN <<<<"Please provide a meaningful description">>>> ELSE <<>>)

\* ClientFormSchema.safeParse({ prompt: value }): the messages of the issues,
\* in the order of the checks; the refinements run after failed length checks
ClientIssues(value) ==
    (IF StrLen(value) < 1
     THEN <<<<"Please describe the image you want to generate">>>> ELSE <<>>)
    \o (IF StrLen(value) > MaxPromptLength
        THEN <<<<"Description must be 1000 characters or less">>>> ELSE <<>>)
    \o (IF StrLen(Trim(value)) > 0
        THEN <<>> ELSE <<<<"Prompt cannot be only whitespace">>>>)
    \o (IF AllWhitespace(value)
        THEN <<<<"Please provide a meaningful description">>>> ELSE <<>>)

\* what fetch or response.json() rejects with: an Error of the network
\* layer or of a mock, or a value that is no Error
Rejections ==
    { Thrown("Error", m) : m \in { <<"Network", "Error">>,
                                   <<"network", "timeout">>,
                                   <<"Failed", "to", "fetch">>,
                                   <<"502", "Bad", "Gateway">>,
                                   <<"503", "Service", "Unavailable">> } }
    \cup { Thrown("string", <<"timeout">>), Thrown("object", <<>>) }

\* a call of fetch settled: its promise resolved to a response, or rejected
Resolved(r) == [how |-> "resolved", response |-> r]
Rejected(error) == [how |-> "rejected", thrown |-> error]

\* response.ok
Ok(r) == r.status \in 200..299

\* JSON.stringify(requestBody) as the endpoint receives it
BodyOf(requestBody) ==
    Body(TRUE, "object", Str(requestBody.prompt), Str(requestBody.model))

\* what a call of generateImage holds in its closure: state.inputValue of
\* the render it was made in; call names the call
Closure(call, inputValue) == [call |-> call, inputValue |-> inputValue]

\* one call of fetch('/api/generate-image', { method: 'POST', ... }) by a
\* call of generateImage, for the request record of its retryCount-th retry
Fetch(closure, req, requestBody, retryCount) ==
    [closure |-> closure, request |-> req, body |-> requestBody,
     retryCount |-> retryCount]

\* the record of the calls of fetch after one more call for a request id
Logged(l, id) ==
    IF id \in DOMAIN l THEN [l EXCEPT ![id] = @ + 1] ELSE (id :> 1) @@ l

\* ------------------------------------------------------------------------
\* The ImageGenerator component
\* ------------------------------------------------------------------------

\* validateInput: null, or the message of the first issue
validateInput(value) ==
    LET issues == ClientIssues(value)
    IN  IF issues = <<>>
        THEN NullError
        ELSE ErrorOf(OrElse(issues[1], <<"Invalid input">>))

\* handleInputChange that also takes the image off display
handleInputChange_DropsImage(s, value) ==
    [s EXCEPT !.inputValue = value,
              !.error = IF value # <<>> THEN validateInput(value) ELSE NullError,
              !.generatedImage = [null |-> TRUE]]

\* handleInputChange: the state after the change event of a value
handleInputChange(s, value) ==
    [s EXCEPT !.inputValue = value,
              !.error = IF value # <<>> THEN validateInput(value) ELSE NullError]

\* the request record of a generation; its timestamp, which nothing reads,
\* is left out
NewRequest(id, trimmedPrompt) ==
    [null |-> FALSE, id |-> id, prompt |-> trimmedPrompt,
     status |-> "generating", model |-> SupportedModel]

\* RequestBody that names another model
RequestBody_OtherModel(trimmedPrompt) == [prompt |-> trimmedPrompt, model |-> OtherModel]

\* const requestBody = { prompt: trimmedPrompt, model: ... }
RequestBody(trimmedPrompt) == [prompt |-> trimmedPrompt, model |-> SupportedModel]

\* InvalidPrompt that also drops the image on display
InvalidPrompt_DropsImage(s, issues) ==
    [s EXCEPT !.error = ErrorOf(OrElse(issues[1], <<"Please provide a valid prompt">>)),
              !.generatedImage = [null |-> TRUE]]

\* the state after the validation of the trimmed prompt failed
InvalidPrompt(s, issues) ==
    [s EXCEPT !.error = ErrorOf(OrElse(issues[1], <<"Please provide a valid prompt">>))]

\* Loading without its last line, generatedImage: null
Loading_KeepsImage(s, req) ==
    [s EXCEPT !.isLoading = TRUE,
              !.error = NullError,
              !.currentRequest = req]

\* Loading without its line error: null
Loading_KeepsError(s, req) ==
    [s EXCEPT !.isLoading = TRUE,
              !.currentRequest = req,
              !.generatedImage = [null |-> TRUE]]

\* the state after "Update state to loading"
Loading(s, req) ==
    [s EXCEPT !.isLoading = TRUE,
              !.error = NullError,
              !.currentRequest = req,
              !.generatedImage = [null |-> TRUE]]

\* `HTTP ${response.status}: Failed to generate image`
HttpMessage(status) == <<"HTTP", ToString(status), ":", "Failed to generate image">>

\* what the try block throws on a response, if it throws
ThrownOn(r) ==
    IF ~Ok(r) \/ ~r.body.success
    THEN Thrown("Error", IF ~r.body.success THEN r.body.message
                                            ELSE HttpMessage(r.status))
    ELSE NoThrown

\* const generatedImage = { id, requestId, imageUrl, prompt, ... }
GeneratedImageOf(id, data, trimmedPrompt) ==
    [null |-> FALSE,
     id |-> id,
     requestId |-> data.requestId,
     imageUrl |-> data.imageUrl,
     prompt |-> trimmedPrompt,
     generatedAt |-> data.generatedAt,
     dimensions |-> IF "dimensions" \in DOMAIN data
                    THEN data.dimensions
                    ELSE [width |-> ImageSize, height |-> ImageSize]]

\* Succeeded without its line isLoading: false
Succeeded_StillLoading(s, req, generatedImage) ==
    [s EXCEPT !.error = NullError,
              !.currentRequest = [req EXCEPT !.status = "completed"],
              !.generatedImage = generatedImage]

\* the state after "Update state with success"
Succeeded(s, req, generatedImage) ==
    [s EXCEPT !.isLoading = FALSE,
              !.error = NullError,
              !.currentRequest = [req EXCEPT !.status = "completed"],
              !.generatedImage = generatedImage]

\* Failed with the fallback text for every error
Failed_FallbackOnly(s, req, error) ==
    [s EXCEPT !.isLoading = FALSE,
              !.error = ErrorOf(<<"Failed to generate image. Please try again.">>),
              !.currentRequest = [req EXCEPT !.status = "error"]]

\* Failed with the status 'completed' for the request record
Failed_MarksCompleted(s, req, error) ==
    [s EXCEPT !.isLoading = FALSE,
              !.error = ErrorOf(IF error.kind = "Error"
                                THEN error.message
                                ELSE <<"Failed to generate image. Please try again.">>),
              !.currentRequest = [req EXCEPT !.status = "completed"]]

\* the state after "Update state with error"
Failed(s, req, error) ==
    [s EXCEPT !.isLoading = FALSE,
              !.error = ErrorOf(IF error.kind = "Error"
                                THEN error.message
                                ELSE <<"Failed to generate image. Please try again.">>),
              !.currentRequest = [req EXCEPT !.status = "error"]]

\* isGenerateDisabled without its first line, if (state.isLoading) return true
isGenerateDisabled_NotWhileLoading(s) ==
    \/ StrLen(Trim(s.inputValue)) = 0
    \/ Truthy(s.error)

\* isGenerateDisabled: the disabled property of the Generate button
isGenerateDisabled(s) ==
    \/ s.isLoading
    \/ StrLen(Trim(s.inputValue)) = 0
    \/ Truthy(s.error)

\* a change event of the input, which is disabled while loading
InputChange ==
    /\ ~state.isLoading
    /\ \E value \in InputValues \ {state.inputValue} :
        state' = handleInputChange(state, value)
    /\ settled' = NotSettled
    /\ UNCHANGED <<fetches, timers, uuids, log, options>>
    /\ UNCHANGED vars

\* generateImage up to its await: the validation of the trimmed prompt, the
\* request record, the loading state and the call of fetch
generateImage ==
    LET trimmedPrompt == Trim(state.inputValue)
        issues == ClientIssues(trimmedPrompt)
        req == NewRequest(ClientUuid(uuids + 1), trimmedPrompt)
    IN  /\ IF issues # <<>>
           THEN /\ state' = InvalidPrompt(state, issues)
                /\ UNCHANGED <<fetches, uuids, log>>
           ELSE /\ uuids + 2 <= MaxUuids
                /\ uuids' = uuids + 1
                /\ state' = Loading(state, req)
                /\ fetches' = fetches \cup {Fetch(Closure(req.id, state.inputValue), req,
                                                   RequestBody(trimmedPrompt), 0)}
                /\ log' = Logged(log, req.id)
        /\ settled' = NotSettled
        /\ UNCHANGED <<timers, options>>
        /\ UNCHANGED vars

\* a click on the Generate button, which does nothing while disabled
Click ==
    /\ ~isGenerateDisabled(state)
    /\ generateImage

\* the endpoint answers a fetch: generateImage from its await to its end
FetchResponds ==
    /\ \E f \in fetches, s \in Sdks, stamp \in Stamps :
        LET r == POST(apiKey, BodyOf(f.body), s, stamp.id, stamp.at)
            error == ThrownOn(r)
        IN  /\ fetches' = fetches \ {f}
            /\ settled' = Resolved(r)
            /\ IF error = NoThrown
               THEN /\ uuids' = uuids + 1
                    /\ state' = Succeeded(state, f.request,
                                    GeneratedImageOf(ClientUuid(uuids + 1), r.body,
                                                     f.request.prompt))
               ELSE /\ state' = Failed(state, f.request, error)
                    /\ UNCHANGED uuids
    /\ UNCHANGED <<timers, log, options>>
    /\ UNCHANGED vars

\* a fetch is rejected: generateImage from its await through its catch block
FetchRejects ==
    /\ \E f \in fetches, error \in Rejections :
        /\ fetches' = fetches \ {f}
        /\ settled' = Rejected(error)
        /\ state' = Failed(state, f.request, error)
    /\ UNCHANGED <<timers, uuids, log, options>>
    /\ UNCHANGED vars

NextUI ==
    \/ SetApiKey
    \/ InputChange
    \/ Click
    \/ FetchResponds
    \/ FetchRejects

\* the page with the component, and the endpoint behind its fetch
SpecUI == Init /\ [][NextUI]_<<vars, clientVars>>

\* generateImage is called while no generation is running, whatever the
\* button's disabled property is, as by a caller that holds the callback
CallGenerateImage ==
    /\ ~state.isLoading
    /\ generateImage

NextUICalls ==
    \/ SetApiKey
    \/ InputChange
    \/ CallGenerateImage
    \/ FetchResponds
    \/ FetchRejects

\* the component with its callback called directly: what generateImage does
\* by itself, without the button in front of it
SpecUICalls == Init /\ [][NextUICalls]_<<vars, clientVars>>

\* ------------------------------------------------------------------------
\* Properties of the ImageGenerator component
\* ------------------------------------------------------------------------

\* C11: at most one fetch to /api/generate-image is outstanding, and while
\* one is outstanding the component is loading and the Generate button is
\* disabled, so that no click starts a second request
C11_OneFetchOutstanding ==
    /\ Cardinality(fetches) <= 1
    /\ fetches # {} => state.isLoading /\ isGenerateDisabled(state)

\* a second generation is in flight, its input valid and without error
C11_Witness ==
    /\ fetches # {}
    /\ Cardinality(DOMAIN log) = 2
    /\ ClientIssues(state.inputValue) = <<>>
    /\ ~Truthy(state.error)

\* a step in which the component handles the failure of a generation
FailureHandled ==
    /\ state.isLoading
    /\ ~state'.isLoading
    /\ state'.currentRequest.status = "error"

\* C12: when a generation has failed, the Generate button is enabled again
\* with the input as it was, so that the same prompt can be retried
C12_EnabledAfterFailure ==
    [][FailureHandled => ~isGenerateDisabled(state')]_<<vars, clientVars>>

\* C13: the state holds one image at most: none while a request is in
\* flight, and otherwise the image of the last generation, which completed:
\* made of that generation's prompt and of the answer to it, and the last
\* object the component created
C13_OnlyTheLastImage ==
    /\ fetches # {} => state.generatedImage.null
    /\ ~state.generatedImage.null =>
        /\ ~state.currentRequest.null
        /\ state.currentRequest.status = "completed"
        /\ state.currentRequest.id = ClientUuid(uuids - 1)
        /\ state.generatedImage.id = ClientUuid(uuids)
        /\ state.generatedImage.prompt = state.currentRequest.prompt
        /\ state.generatedImage.imageUrl = PlaceholderImageUrl(state.currentRequest.prompt)

\* the second of two generations that succeeded one after the other shows
\* its image
C13_Witness ==
    /\ ~state.generatedImage.null
    /\ Cardinality(DOMAIN log) = 2
    /\ uuids = 4
    /\ state.generatedImage.prompt = <<Run("b", 1)>>

\* the message of a failure: of the failure envelope the endpoint answered
\* with, or of the Error that fetch rejected with; a rejection with a value
\* that is no Error has no message, and the component's own text stands for it
MessageOfFailure(outcome) ==
    IF outcome.how = "resolved"
    THEN outcome.response.body.message
    ELSE IF outcome.thrown.kind = "Error"
    THEN outcome.thrown.message
    ELSE <<"Failed to generate image. Please try again.">>

\* C14: when a generation has failed, isLoading is false, no image is held
\* and the error field holds the message of the failure
C14_FailureShown ==
    [][FailureHandled =>
        /\ ~state'.isLoading
        /\ state'.generatedImage.null
        /\ state'.error = ErrorOf(MessageOfFailure(settled'))]_<<vars, clientVars>>

\* a generation that followed a successful one failed by a rejected fetch
C14_Witness ==
    /\ ~state.isLoading
    /\ ~state.currentRequest.null
    /\ state.currentRequest.status = "error"
    /\ state.currentRequest.id = ClientUuid(3)
    /\ settled = Rejected(Thrown("Error", <<"Network", "Error">>))
    /\ state.error = ErrorOf(<<"Network", "Error">>)

\* a step that is neither a change of the input nor the end of a fetch
NeitherChangeNorSettlement ==
    /\ state'.inputValue = state.inputValue
    /\ ~(fetches' # fetches /\ fetches' \subseteq fetches)

\* C15: the Generate button is disabled while the trimmed input is empty,
\* and while the trimmed input fails the validation a call of generateImage
\* issues no fetch and changes nothing but the error field
C15_NoFetchForInvalidInput ==
    /\ [](StrLen(Trim(state.inputValue)) = 0 => isGenerateDisabled(state))
    /\ [][ClientIssues(Trim(state.inputValue)) # <<>> /\ NeitherChangeNorSettlement
            => /\ log' = log
               /\ fetches' = fetches
               /\ state' = [state EXCEPT !.error = state'.error]]_<<vars, clientVars>>

\* generateImage was called with whitespace-only input while an image was
\* on display: the error is the one of the empty trimmed prompt
C15_Witness ==
    /\ state.inputValue = <<Run(" ", 1)>>
    /\ state.error = ErrorOf(<<"Please describe the image you want to generate">>)
    /\ ~state.generatedImage.null

\* a step in which a generation starts
GenerationStarts == ~state.isLoading /\ state'.isLoading

\* C17: a click on Generate that starts a generation calls fetch exactly
\* once, with the body {prompt: the input trimmed, model: the model's name}
C17_OnePostPerClick ==
    [][GenerationStarts =>
        \E f \in fetches' :
            /\ f \notin fetches
            /\ fetches' = fetches \cup {f}
            /\ f.body = [prompt |-> Trim(state.inputValue), model |-> SupportedModel]
            /\ f.request.id \notin DOMAIN log
            /\ DOMAIN log' = DOMAIN log \cup {f.request.id}
            /\ log'[f.request.id] = 1
            /\ \A id \in DOMAIN log : log'[id] = log[id]]_<<vars, clientVars>>

\* a fetch is outstanding whose prompt is the input without its leading space
C17_Witness ==
    /\ state.isLoading
    /\ state.inputValue = <<Run(" ", 1), Run("a", 1)>>
    /\ \E f \in fetches : f.body.prompt = <<Run("a", 1)>>

\* C19: while isLoading is true the error is null, no image is held and
\* currentRequest is a record of status 'generating'; the start of a
\* generation sets the error to null whatever it was
C19_LoadingState ==
    /\ [](state.isLoading =>
            /\ state.error = NullError
            /\ state.generatedImage.null
            /\ ~state.currentRequest.null
            /\ state.currentRequest.status = "generating")
    /\ [][GenerationStarts => state'.error = NullError]_<<vars, clientVars>>

\* the first generation runs for an input of 1001 characters, 1000 of them
\* after trimming: the change event had set the error of the length limit
C19_Witness ==
    /\ state.isLoading
    /\ uuids = 1
    /\ state.inputValue = <<Run(" ", 1), Run("a", MaxPromptLength - 1), Run("b", 1)>>
    /\ state.error = NullError

\* the request record of an id keeps its status or leaves 'generating'
StatusMoves(old, new) ==
    \/ new.status = old.status
    \/ old.status = "generating" /\ new.status \in {"completed", "error"}

\* C20: the request record of an id only moves from 'generating' to
\* 'completed' or to 'error' and then keeps its status; it is 'completed'
\* only with an image held, and 'generating' exactly while isLoading is true
C20_RequestStatus ==
    /\ [](/\ state.isLoading <=>
                (~state.currentRequest.null /\ state.currentRequest.status = "generating")
          /\ ~state.currentRequest.null =>
                /\ state.currentRequest.status \in {"generating", "completed", "error"}
                /\ state.currentRequest.status = "completed" => ~state.generatedImage.null)
    /\ [][(~state.currentRequest.null /\ ~state'.currentRequest.null
           /\ state'.currentRequest.id = state.currentRequest.id)
            => StatusMoves(state.currentRequest, state'.currentRequest)]_<<vars, clientVars>>

\* the record of a generation that followed a failed one reached 'completed'
C20_Witness ==
    /\ ~state.currentRequest.null
    /\ state.currentRequest.status = "completed"
    /\ state.currentRequest.id = ClientUuid(2)
    /\ ~state.isLoading

\* ------------------------------------------------------------------------
\* The useImageGeneration hook
\* ------------------------------------------------------------------------

\* how many times the hook's user calls generateImage
MaxCalls == 2

\* the options of the hook's user: the defaults, no retry, no validation
OptionsValues == {
    DefaultOptions,
    [validateInput |-> TRUE, maxRetries |-> 0],
    [validateInput |-> FALSE, maxRetries |-> 1] }

\* the values the hook's user passes to setInputValue
HookInputValues == {
    <<>>,
    <<Run(" ", 1), Run("b", 1)>> }

\* what fetch rejects with behind the hook: an Error for each of the
\* substrings the hook looks for, one without any, and a string
HookRejections ==
    { Thrown("Error", m) : m \in { <<"Network", "Error">>,
                                   <<"network", "timeout">>,
                                   <<"502", "Bad", "Gateway">>,
                                   <<"503", "Service", "Unavailable">> } }
    \cup { Thrown("string", <<"timeout">>) }

\* the credential behind the hook's requests: unset, or set to a key
HookApiKeys == {key \in ApiKeys : key.set => key.value # ""}

\* the endpoint's crypto.randomUUID() and new Date() for a request of the
\* hook, which copies them and compares them with nothing
HookStamp == [id |-> "uuid-1", at |-> 1]

\* how the SDK behaves behind the hook's requests: it works, or it fails
HookSdks == {Sdk("returns", NoThrown, "resolves"),
             Sdk("throws", Thrown("Error", <<"quota", "exceeded">>), "resolves")}

\* the values of crypto.randomUUID() in the hook, named by the attempt that
\* makes the call: for the request record, and for the generated image
AttemptUuid(closure, retryCount, for) ==
    "client-uuid-" \o ToString(closure.call) \o "-" \o ToString(retryCount) \o "-" \o for

\* validatePrompt
validatePrompt(opts, value) ==
    IF ~opts.validateInput THEN NullError ELSE validateInput(value)

\* setInputValue: the state after it
setInputValue(s, opts, value) ==
    [s EXCEPT !.inputValue = value,
              !.error = IF opts.validateInput THEN validatePrompt(opts, value)
                                              ELSE NullError]

\* the computed values validationError, isValid and canGenerate
validationError(s, opts) ==
    IF opts.validateInput THEN validatePrompt(opts, s.inputValue) ELSE NullError

isValid(s, opts) ==
    ~Truthy(validationError(s, opts)) /\ StrLen(Trim(s.inputValue)) > 0

canGenerate(s, opts) == isValid(s, opts) /\ ~s.isLoading

\* the condition of the effect "Auto-clear errors when input changes"; the
\* effect runs after the render of a state, before anything else happens
EffectPending == Truthy(state.error) /\ isValid(state, options)

\* the substrings of an error message for which an attempt is retried
RetryPatterns == {<<"network">>, <<"timeout">>, <<"503">>, <<"502">>}

\* shouldRetry without the ceiling retryCount < maxRetries
shouldRetry_NoCeiling(opts, retryCount, errorMessage) ==
    \E pattern \in RetryPatterns : Includes(errorMessage, pattern)

\* const shouldRetry = retryCount < maxRetries && ( ... )
shouldRetry(opts, retryCount, errorMessage) ==
    /\ retryCount < opts.maxRetries
    /\ \E pattern \in RetryPatterns : Includes(errorMessage, pattern)

\* setTimeout(() => generateImage(retryCount + 1), 2^retryCount * 1000)
Timer(closure, retryCount) ==
    [closure |-> closure, retryCount |-> retryCount + 1,
     delay |-> (2 ^ retryCount) * 1000]

\* the state after "Final error state"
FinalFailed(s, req, errorMessage) ==
    [s EXCEPT !.isLoading = FALSE,
              !.error = ErrorOf(OrElse(errorMessage,
                            <<"Failed to generate image. Please try again.">>)),
              !.currentRequest = [req EXCEPT !.status = "error"]]

\* what a call of generateImage did so far: its calls of fetch, and the
\* times it reached onSuccess?.( ... ) and onError?.( ... )
NoCalls == [fetch |-> 0, onSuccess |-> 0, onError |-> 0]

\* generateImage(retryCount) up to its await, in the closure of a call: the
\* validation of the trimmed prompt, a new request record, the loading
\* state and the call of fetch; l is the record of the calls
Attempt(closure, retryCount, l) ==
    LET trimmedPrompt == Trim(closure.inputValue)
        issues == IF options.validateInput THEN ClientIssues(trimmedPrompt) ELSE <<>>
        req == NewRequest(AttemptUuid(closure, retryCount, "request"), trimmedPrompt)
    IN  IF issues # <<>>
        THEN /\ state' = InvalidPrompt(state, issues)
             /\ log' = [l EXCEPT ![closure.call].onError = @ + 1]
             /\ UNCHANGED <<fetches, uuids>>
        ELSE /\ uuids' = uuids + 1
             /\ state' = Loading(state, req)
             /\ fetches' = fetches \cup {Fetch(closure, req, RequestBody(trimmedPrompt),
                                               retryCount)}
             /\ log' = [l EXCEPT ![closure.call].fetch = @ + 1]

\* Catch that calls onError for an attempt that is retried, too
Catch_OnErrorOnRetry(f, error) ==
    LET errorMessage == ErrorMessage(error)
    IN  IF shouldRetry(options, f.retryCount, errorMessage)
        THEN /\ timers' = timers \cup {Timer(f.closure, f.retryCount)}
             /\ log' = [log EXCEPT ![f.closure.call].onError = @ + 1]
             /\ UNCHANGED state
        ELSE /\ state' = FinalFailed(state, f.request, errorMessage)
             /\ log' = [log EXCEPT ![f.closure.call].onError = @ + 1]
             /\ UNCHANGED timers

\* the catch block of generateImage(retryCount): a retry timer, or the final
\* error state and onError
Catch(f, error) ==
    LET errorMessage == ErrorMessage(error)
    IN  IF shouldRetry(options, f.retryCount, errorMessage)
        THEN /\ timers' = timers \cup {Timer(f.closure, f.retryCount)}
             /\ UNCHANGED <<state, log>>
        ELSE /\ state' = FinalFailed(state, f.request, errorMessage)
             /\ log' = [log EXCEPT ![f.closure.call].onError = @ + 1]
             /\ UNCHANGED timers

\* the hook's user calls setInputValue
SetInputValue ==
    /\ ~EffectPending
    /\ \E value \in HookInputValues : state' = setInputValue(state, options, value)
    /\ settled' = NotSettled
    /\ UNCHANGED <<fetches, timers, uuids, log, options>>
    /\ UNCHANGED vars

\* the hook's user calls clearError
ClearError ==
    /\ ~EffectPending
    /\ state' = [state EXCEPT !.error = NullError]
    /\ settled' = NotSettled
    /\ UNCHANGED <<fetches, timers, uuids, log, options>>
    /\ UNCHANGED vars

\* the hook's user calls clearImage
ClearImage ==
    /\ ~EffectPending
    /\ state' = [state EXCEPT !.generatedImage = [null |-> TRUE]]
    /\ settled' = NotSettled
    /\ UNCHANGED <<fetches, timers, uuids, log, options>>
    /\ UNCHANGED vars

\* the hook's user calls reset
Reset ==
    /\ ~EffectPending
    /\ state' = initialState
    /\ settled' = NotSettled
    /\ UNCHANGED <<fetches, timers, uuids, log, options>>
    /\ UNCHANGED vars

\* the effect: if (state.error && isValid) clearError()
AutoClearError ==
    /\ EffectPending
    /\ state' = [state EXCEPT !.error = NullError]
    /\ settled' = NotSettled
    /\ UNCHANGED <<fetches, timers, uuids, log, options>>
    /\ UNCHANGED vars

\* the hook's user calls generateImage, which is generateImage(0) in the
\* closure of the last render
HookGenerateImage ==
    /\ ~EffectPending
    /\ Len(log) < MaxCalls
    /\ Attempt(Closure(Len(log) + 1, state.inputValue), 0, Append(log, NoCalls))
    /\ settled' = NotSettled
    /\ UNCHANGED <<timers, options>>
    /\ UNCHANGED vars

\* a retry timer fires: generateImage(retryCount + 1) in the closure that
\* set the timer
RetryTimerFires ==
    /\ ~EffectPending
    /\ \E t \in timers :
        /\ timers' = timers \ {t}
        /\ Attempt(t.closure, t.retryCount, log)
    /\ settled' = NotSettled
    /\ UNCHANGED options
    /\ UNCHANGED vars

\* the endpoint answers a fetch: generateImage(retryCount) from its await on
HookFetchResponds ==
    /\ ~EffectPending
    /\ \E f \in fetches, s \in HookSdks, stamp \in {HookStamp} :
        LET r == POST(apiKey, BodyOf(f.body), s, stamp.id, stamp.at)
            error == ThrownOn(r)
        IN  /\ fetches' = fetches \ {f}
            /\ settled' = Resolved(r)
            /\ IF error = NoThrown
               THEN /\ uuids' = uuids + 1
                    /\ state' = Succeeded(state, f.request,
                                    GeneratedImageOf(AttemptUuid(f.closure, f.retryCount, "image"),
                                                     r.body, f.request.prompt))
                    /\ log' = [log EXCEPT ![f.closure.call].onSuccess = @ + 1]
                    /\ UNCHANGED timers
               ELSE /\ Catch(f, error)
                    /\ UNCHANGED uuids
    /\ UNCHANGED options
    /\ UNCHANGED vars

\* a fetch is rejected: generateImage(retryCount) through its catch block
HookFetchRejects ==
    /\ ~EffectPending
    /\ \E f \in fetches, error \in HookRejections :
        /\ fetches' = fetches \ {f}
        /\ settled' = Rejected(error)
        /\ Catch(f, error)
    /\ UNCHANGED <<uuids, options>>
    /\ UNCHANGED vars

\* a component has called useImageGeneration with some options
InitHook ==
    /\ apiKey \in HookApiKeys
    /\ pc = "idle"
    /\ request = NoRequest
    /\ sdk = NoSdk
    /\ response = NoResponse
    /\ state = initialState
    /\ fetches = {}
    /\ timers = {}
    /\ uuids = 0
    /\ log = <<>>
    /\ settled = NotSettled
    /\ options \in OptionsValues

NextHook ==
    \/ SetInputValue
    \/ ClearError
    \/ ClearImage
    \/ Reset
    \/ AutoClearError
    \/ HookGenerateImage
    \/ RetryTimerFires
    \/ HookFetchResponds
    \/ HookFetchRejects

\* the hook, its user, and the endpoint behind its fetch
SpecHook == InitHook /\ [][NextHook]_<<vars, clientVars>>

\* ------------------------------------------------------------------------
\* Properties of the useImageGeneration hook
\* ------------------------------------------------------------------------

\* a step in which a call of fetch ends
FetchSettles == fetches' # fetches /\ fetches' \subseteq fetches

\* the call of fetch that ends in the step
SettledFetch == CHOOSE f \in fetches : f \notin fetches'

\* the attempt whose fetch ended has failed
AttemptFailed(outcome) ==
    outcome.how = "rejected" \/ ~Ok(outcome.response) \/ ~outcome.response.body.success

\* the error message of a failed attempt: of the failure envelope, of the
\* Error that fetch rejected with, or the string of a rejection's value
AttemptErrorMessage(outcome) ==
    IF outcome.how = "resolved"
    THEN outcome.response.body.message
    ELSE IF outcome.thrown.kind = "Error"
    THEN outcome.thrown.message
    ELSE StringOf(outcome.thrown)

\* the message contains 'network', 'timeout', '503' or '502'
LooksTransient(message) ==
    \/ Includes(message, <<"network">>)
    \/ Includes(message, <<"timeout">>)
    \/ Includes(message, <<"503">>)
    \/ Includes(message, <<"502">>)

\* C16: a call of generateImage makes maxRetries + 1 calls of fetch at most;
\* a failed attempt sets a retry timer only if its error message contains
\* 'network', 'timeout', '503' or '502' and fewer than maxRetries retries
\* were made, and otherwise ends the call in the error state: isLoading
\* false, the request record 'error', the error the message
C16_BoundedRetries ==
    /\ [](/\ \A call \in DOMAIN log : log[call].fetch <= options.maxRetries + 1
          /\ \A f \in fetches : f.retryCount <= options.maxRetries
          /\ \A t \in timers : t.retryCount <= options.maxRetries)
    /\ [][FetchSettles /\ AttemptFailed(settled') =>
            IF timers' # timers
            THEN /\ LooksTransient(AttemptErrorMessage(settled'))
                 /\ SettledFetch.retryCount < options.maxRetries
                 /\ timers' = timers \cup {Timer(SettledFetch.closure, SettledFetch.retryCount)}
                 /\ state' = state
            ELSE /\ ~state'.isLoading
                 /\ state'.currentRequest = [SettledFetch.request EXCEPT !.status = "error"]
                 /\ state'.error = ErrorOf(AttemptErrorMessage(settled'))]_<<vars, clientVars>>

\* with the default options the first call made four calls of fetch, all of
\* which failed, and ended in the error state
C16_Witness ==
    /\ options = DefaultOptions
    /\ Len(log) >= 1
    /\ log[1].fetch = DefaultMaxRetries + 1
    /\ log[1].onError = 1
    /\ settled = Rejected(Thrown("Error", <<"503", "Service", "Unavailable">>))
    /\ ~state.isLoading
    /\ state.currentRequest.status = "error"

\* C18: at most one call of fetch of the hook is outstanding: a call of
\* generateImage made while isLoading is true starts no second request
C18_HookOneFetchOutstanding == Cardinality(fetches) <= 1

\* ------------------------------------------------------------------------
\* Properties of the UI state against the data model
\* ------------------------------------------------------------------------

\* C21: currentRequest is null whenever no generation is in progress, that
\* is in every state of the component with isLoading false, also after a
\* generation ended in error
C21_NoRequestWhenIdle == ~state.isLoading => state.currentRequest.null

\* C22: after a successful generation the image held by the state names the
\* client request record that produced it: generatedImage.requestId is
\* currentRequest.id and generatedImage.prompt is currentRequest.prompt
C22_ImageOfItsRequest ==
    (~state.generatedImage.null /\ ~state.currentRequest.null) =>
        /\ state.generatedImage.requestId = state.currentRequest.id
        /\ state.generatedImage.prompt = state.currentRequest.prompt

\* C23: a generated image persists until a new generation starts: a step
\* that starts no generation (a change of the input, with or without a
\* validation error shown for it, or a rejected call of generateImage) leaves
\* the generatedImage it found
C23_ImagePersists ==
    [][(~state.generatedImage.null /\ ~GenerationStarts)
        => state'.generatedImage = state.generatedImage]_<<vars, clientVars>>

\* an image is on display while the input, changed since, shows a
\* validation error
C23_Witness ==
    /\ ~state.generatedImage.null
    /\ ~state.isLoading
    /\ Truthy(state.error)
    /\ Trim(state.inputValue) # state.generatedImage.prompt
    /\ state.inputValue # <<>>

\* the component when every fetch settles: the promise of an outstanding
\* fetch is resolved or rejected at some time, and the continuation of
\* generateImage then runs to its end
SpecUIFair ==
    /\ SpecUI
    /\ WF_<<vars, clientVars>>(FetchResponds \/ FetchRejects)

\* how a generation ends: with an image and no error, or with an error and
\* no image
EndedWith(s) ==
    IF s.generatedImage.null
    THEN Truthy(s.error)
    ELSE ~Truthy(s.error)

\* C25: provided every fetch settles, every generation started in the
\* component eventually ends with isLoading false, and the state it ends in
\* holds either the image and no error, or an error and no image
C25_GenerationEnds ==
    /\ state.isLoading ~> ~state.isLoading
    /\ [][(state.isLoading /\ ~state'.isLoading) => EndedWith(state')]_<<vars, clientVars>>

\* the second generation has just ended, in an error, after the first one
\* had produced an image
C25_Witness ==
    /\ ~state.isLoading
    /\ settled.how = "rejected"
    /\ Cardinality(DOMAIN log) = 2
    /\ uuids = 3
    /\ Truthy(state.error)
    /\ state.generatedImage.null

\* ImageGenerationRequestSchema.safeParse of a request body as the endpoint
\* receives it
ServerAccepts(requestBody) == SafeParse(ParseBody(BodyOf(requestBody))).success

\* C28: every request body the component sends passes the server's
\* ImageGenerationRequestSchema: whenever the client validation accepts the
\* trimmed input the server validation accepts the body made of it, and no
\* request of the component is answered with INVALID_PROMPT
C28_ServerAcceptsWhatClientSends ==
    /\ \A value \in InputValues :
        ClientIssues(Trim(value)) = <<>> => ServerAccepts(RequestBody(Trim(value)))
    /\ \A f \in fetches :
        /\ ClientIssues(f.body.prompt) = <<>>
        /\ ServerAccepts(f.body)
    /\ settled.how = "resolved" =>
        ~IsFailure(settled.response, 400, "INVALID_PROMPT")

\* a prompt of exactly 1000 characters was sent and answered with an image
C28_Witness ==
    /\ settled.how = "resolved"
    /\ settled.response.status = 200
    /\ ~state.generatedImage.null
    /\ StrLen(state.generatedImage.prompt) = MaxPromptLength

\* ------------------------------------------------------------------------
\* Properties of the hook's state and callbacks
\* ------------------------------------------------------------------------

\* the state holds the error of a generation that has finally failed
FinallyFailed ==
    /\ ~state.isLoading
    /\ ~state.currentRequest.null
    /\ state.currentRequest.status = "error"
    /\ Truthy(state.error)

\* a step of the hook's caller that may change the error field
CallerActs == SetInputValue \/ ClearError \/ Reset \/ HookGenerateImage

\* C24: once a generation has finally failed the error field keeps the
\* failure message until the caller changes the input, calls clearError or
\* reset, or starts another generation; no step of the hook's own clears it
C24_ErrorKept ==
    [][(FinallyFailed /\ ~CallerActs) => state'.error = state.error]_<<vars, clientVars>>

\* C26: after reset() the state is the initial state and stays so until the
\* next call of setInputValue or generateImage, also while a fetch or a retry
\* timer started before the reset is pending: no late response and no late
\* retry repopulates isLoading, currentRequest, generatedImage or error
C26_ResetStays ==
    [][(state = initialState /\ ~(SetInputValue \/ HookGenerateImage))
        => state' = initialState]_<<vars, clientVars>>

\* a call of generateImage has a fetch or a retry timer outstanding
Outstanding(call) ==
    \/ \E f \in fetches : f.closure.call = call
    \/ \E t \in timers : t.closure.call = call

\* what a call had done before a step, also if the step is the call itself
Before(call) == IF call \in DOMAIN log THEN log[call] ELSE NoCalls

====
